---- MODULE Spec2Model ----
(***************************************************************************)
(* Model of tutel/examples/helloworld_data_model.py: a linear script that  *)
(* parses its arguments, initialises the data/model parallel environment,  *)
(* builds a one-layer MoE model, runs num_steps forward/backward steps     *)
(* with gradient all-reduces, and prints a timing summary.                 *)
(*                                                                         *)
(* Spec      : one process of the launch, statement by statement.          *)
(* SpecSPMD  : all processes of the launch, collectives as rendezvous.     *)
(***************************************************************************)
EXTENDS Integers, Sequences, FiniteSets

VARIABLES
    argv,            \* command line given to the process
    args,            \* argparse namespace (line 38)
    parallel_env,    \* result of system_init.init_data_model_parallel() (line 40)
    pc,              \* statement about to be executed
    err,             \* exception that ended the script, or "none"
    default_dtype,   \* torch default dtype
    grad,            \* p.grad of every model parameter ("absent" before the model exists)
    params_for_all_reduce,
    params_for_replicas_all_reduce,
    it,              \* next index range(num_steps) yields
    i,               \* loop variable
    now,             \* wall clock read by time.time()
    t_start,
    t_stop,
    average_time,    \* [num, den]: the value num/den
    ops,             \* operations performed so far in the current step
    out,             \* lines passed to print / dist_print so far
    steps_done,      \* number of completed loop bodies
    \* ---- SpecSPMD only ----
    wenv,            \* the launch: [global_size, group_count]
    ppc,             \* per rank: position in the script
    pstep,           \* per rank: loop variable i
    pqueue,          \* per rank: collectives of the current block still to issue
    pwait,           \* per rank: the collective it is blocked in, or NoCall
    pissued,         \* per rank: group kind -> number of collectives issued on its group
    coll,            \* per group: [n, desc, arrived] of the collective being gathered
    mismatch         \* some member joined a collective with a different operation

vars == <<argv, args, parallel_env, pc, err, default_dtype, grad,
          params_for_all_reduce, params_for_replicas_all_reduce, it, i, now,
          t_start, t_stop, average_time, ops, out, steps_done>>

pvars == <<wenv, ppc, pstep, pqueue, pwait, pissued, coll, mismatch>>

allvars == <<vars, pvars>>

(***************************************************************************)
(* Bounds of the model                                                     *)
(***************************************************************************)
MaxWorld == 2        \* largest world size of a launch
MaxDt == 2           \* largest measured duration of a step, in clock ticks

(***************************************************************************)
(* Program constants                                                       *)
(***************************************************************************)
num_steps == 100
AverageWindow == 10
AverageDivisor == 10

Dtypes == {"float32", "float16", "bfloat16", "float64"}
LAuxWts == {0, 1}                 \* 0 is 0.0, 1 a non-zero weight
GroupCountArgs == {1, 2}

Argvs == [dtype : Dtypes, l_aux_wt : LAuxWts, group_count : GroupCountArgs]

NoArgs == [dtype |-> "unparsed", l_aux_wt |-> 0, group_count |-> 0]
NoEnv == [is_distributed |-> FALSE, global_size |-> 0, group_count |-> 0,
          global_rank |-> 0]

\* What init_data_model_parallel() can return: it is called without
\* arguments, so nothing of args reaches it.
Envs == { e \in [is_distributed : BOOLEAN, global_size : 1..MaxWorld,
                 group_count : 1..MaxWorld, global_rank : 0..(MaxWorld - 1)] :
            /\ e.global_size % e.group_count = 0
            /\ e.global_rank < e.global_size }

\* model.parameters(), in order; the expert parameters are the ones
\* scan_expert_func visits.
Parameters == <<"gate_wg", "experts_fc1", "experts_fc2">>
ParamSet == {Parameters[k] : k \in 1..Len(Parameters)}
ExpertParams == {"experts_fc1", "experts_fc2"}

HasSkipAllreduce(p) == p \in ExpertParams
RequiresGrad(p) == p \in ParamSet


(***************************************************************************)
(* Control flow: the statements of the script in program order             *)
(***************************************************************************)
Prologue == <<"parse_args", "init_data_model_parallel", "check_distributed",
              "print_device", "set_default_dtype", "construct_model",
              "setup_training", "print_benchmark", "init_loop">>

StepBody_reordered == <<"sync_start", "zero_grad", "forward", "loss", "backward",
                        "optimizer_step", "all_reduce_global", "all_reduce_data",
                        "sync_stop", "print_step", "accumulate">>

\* The body of `for i in range(num_steps)` (lines 108-132)
StepBody == <<"sync_start", "zero_grad", "forward", "loss", "backward",
              "all_reduce_global", "all_reduce_data", "optimizer_step",
              "sync_stop", "print_step", "accumulate">>

Epilogue == <<"average", "print_summary">>

Labels(seq) == {seq[k] : k \in 1..Len(seq)}
IndexOf(seq, x) == CHOOSE k \in 1..Len(seq) : seq[k] = x

AfterStepBody_break == "average"

\* The end of the loop body returns to the loop head (line 106)
AfterStepBody == "for"

NextLabel(l) ==
    IF l \in Labels(Prologue)
    THEN IF IndexOf(Prologue, l) < Len(Prologue)
         THEN Prologue[IndexOf(Prologue, l) + 1] ELSE "for"
    ELSE IF l \in Labels(StepBody)
    THEN IF IndexOf(StepBody, l) < Len(StepBody)
         THEN StepBody[IndexOf(StepBody, l) + 1] ELSE AfterStepBody
    ELSE IF IndexOf(Epilogue, l) < Len(Epilogue)
         THEN Epilogue[IndexOf(Epilogue, l) + 1] ELSE "done"

(***************************************************************************)
(* Conditions of the script                                                *)
(***************************************************************************)
NotDistributed_unchecked(e) == FALSE

\* line 44: if not parallel_env.is_distributed
NotDistributed(e) == ~e.is_distributed

RecognizedDtype_no_bf16(d) == d \in {"float32", "float16"}

\* lines 56-63: the if/elif chain over args.dtype
RecognizedDtype(d) == d \in {"float32", "float16", "bfloat16"}

HasNext_short(k) == k + 1 < num_steps

\* line 106: range(num_steps) has another index to yield
HasNext(k) == k < num_steps

\* line 114: if args.l_aux_wt
AuxEnabled(a) == a.l_aux_wt # 0

\* line 117
GlobalReduceGuard(e) == e.global_size > 1

ReplicaReduceGuard_rank0(e) == e.group_count > 1 /\ e.global_rank = 0

\* line 121
ReplicaReduceGuard(e) == e.group_count > 1

InAverageWindow_strict(k) == k + AverageWindow > num_steps

\* line 131: if i + 10 >= num_steps
InAverageWindow(k) == k + AverageWindow >= num_steps

\* line 103: the filter of params_for_all_reduce, on the gradients g
InAllReduce(p, g) ==
    ~HasSkipAllreduce(p) /\ RequiresGrad(p) /\ g[p] # "None"

InReplicasAllReduce_skip_only(p, g) == HasSkipAllreduce(p)

\* line 104: the filter of params_for_replicas_all_reduce
InReplicasAllReduce(p, g) ==
    ~(~HasSkipAllreduce(p) /\ RequiresGrad(p) /\ g[p] # "None")

\* A list comprehension over model.parameters()
RECURSIVE Comprehension(_, _, _)
Comprehension(seq, g, which) ==
    IF seq = <<>> THEN <<>>
    ELSE LET keep == IF which = "all_reduce" THEN InAllReduce(Head(seq), g)
                     ELSE InReplicasAllReduce(Head(seq), g)
         IN (IF keep THEN <<Head(seq)>> ELSE <<>>)
              \o Comprehension(Tail(seq), g, which)

Op(name) == [op |-> name, p |-> "-", group |-> "-"]

\* lines 118-120 / 122-124: for p in list: p.grad /= n; dist.all_reduce(p.grad, group)
RECURSIVE ReduceEvents(_, _)
ReduceEvents(list, g) ==
    IF list = <<>> THEN <<>>
    ELSE << [op |-> "div", p |-> Head(list), group |-> g],
            [op |-> "all_reduce", p |-> Head(list), group |-> g] >>
         \o ReduceEvents(Tail(list), g)

Line(k, a, b) == [kind |-> k, a |-> a, b |-> b]

\* Durations time.time() can measure for step k: steps 88, 89, 90 and 99
\* vary, the others take one tick.
ProbeSteps == {num_steps - AverageWindow - 2, num_steps - AverageWindow - 1,
               num_steps - AverageWindow, num_steps - 1}
Durations(k) == IF k \in ProbeSteps THEN 1..MaxDt ELSE {1}


(***************************************************************************)
(* Spec: one process, statement by statement                               *)
(***************************************************************************)
NoCall == [group |-> "-", what |-> "-"]

IdleSPMD ==
    /\ wenv = [global_size |-> 0, group_count |-> 0]
    /\ ppc = <<>>
    /\ pstep = <<>>
    /\ pqueue = <<>>
    /\ pwait = <<>>
    /\ pissued = <<>>
    /\ coll = <<>>
    /\ mismatch = FALSE

InitProcess ==
    /\ argv \in Argvs
    /\ args = NoArgs
    /\ parallel_env = NoEnv
    /\ pc = "parse_args"
    /\ err = "none"
    /\ default_dtype = "float32"
    /\ grad = [p \in ParamSet |-> "absent"]
    /\ params_for_all_reduce = <<>>
    /\ params_for_replicas_all_reduce = <<>>
    /\ it = 0
    /\ i = -1
    /\ now = 0
    /\ t_start = 0
    /\ t_stop = 0
    /\ average_time = [num |-> 0, den |-> 1]
    /\ ops = <<>>
    /\ out = <<>>
    /\ steps_done = 0

Init == InitProcess /\ IdleSPMD

Goto(l) == pc' = l
Advance == Goto(NextLabel(pc))
Do(name) == ops' = Append(ops, Op(name))
Emit(line) == out' = Append(out, line)

\* lines 25-38
ParseArgs ==
    /\ pc = "parse_args"
    /\ args' = argv
    /\ Advance
    /\ UNCHANGED <<argv, parallel_env, err, default_dtype, grad,
                   params_for_all_reduce, params_for_replicas_all_reduce, it, i,
                   now, t_start, t_stop, average_time, ops, out, steps_done>>
    /\ UNCHANGED pvars

\* lines 40-42
InitDataModelParallel ==
    /\ pc = "init_data_model_parallel"
    /\ \E e \in Envs : parallel_env' = e
    /\ Advance
    /\ UNCHANGED <<argv, args, err, default_dtype, grad,
                   params_for_all_reduce, params_for_replicas_all_reduce, it, i,
                   now, t_start, t_stop, average_time, ops, out, steps_done>>
    /\ UNCHANGED pvars

\* lines 44-45
CheckDistributed ==
    /\ pc = "check_distributed"
    /\ IF NotDistributed(parallel_env)
       THEN err' = "RuntimeError" /\ Goto("error")
       ELSE err' = err /\ Advance
    /\ UNCHANGED <<argv, args, parallel_env, default_dtype, grad,
                   params_for_all_reduce, params_for_replicas_all_reduce, it, i,
                   now, t_start, t_stop, average_time, ops, out, steps_done>>
    /\ UNCHANGED pvars

\* line 46
PrintDevice ==
    /\ pc = "print_device"
    /\ Emit(Line("Device", parallel_env.global_rank, 0))
    /\ Advance
    /\ UNCHANGED <<argv, args, parallel_env, err, default_dtype, grad,
                   params_for_all_reduce, params_for_replicas_all_reduce, it, i,
                   now, t_start, t_stop, average_time, ops, steps_done>>
    /\ UNCHANGED pvars

\* lines 48-63
SetDefaultDtype ==
    /\ pc = "set_default_dtype"
    /\ IF RecognizedDtype(args.dtype)
       THEN default_dtype' = args.dtype /\ err' = err /\ Advance
       ELSE default_dtype' = default_dtype /\ err' = "Exception" /\ Goto("error")
    /\ UNCHANGED <<argv, args, parallel_env, grad,
                   params_for_all_reduce, params_for_replicas_all_reduce, it, i,
                   now, t_start, t_stop, average_time, ops, out, steps_done>>
    /\ UNCHANGED pvars

\* lines 66-90: the parameters exist, none has a gradient yet
ConstructModel ==
    /\ pc = "construct_model"
    /\ grad' = [p \in ParamSet |-> "None"]
    /\ out' = out \o <<Line("Statistics", 0, 0), Line("Model", 0, 0)>>
    /\ Advance
    /\ UNCHANGED <<argv, args, parallel_env, err, default_dtype,
                   params_for_all_reduce, params_for_replicas_all_reduce, it, i,
                   now, t_start, t_stop, average_time, ops, steps_done>>
    /\ UNCHANGED pvars

\* lines 92-96: optimizer, seed, x, y
SetupTraining ==
    /\ pc = "setup_training"
    /\ Advance
    /\ UNCHANGED <<argv, args, parallel_env, err, default_dtype, grad,
                   params_for_all_reduce, params_for_replicas_all_reduce, it, i,
                   now, t_start, t_stop, average_time, ops, out, steps_done>>
    /\ UNCHANGED pvars

\* lines 98-99
PrintBenchmark ==
    /\ pc = "print_benchmark"
    /\ Emit(Line("Benchmark", parallel_env.global_size, parallel_env.group_count))
    /\ Advance
    /\ UNCHANGED <<argv, args, parallel_env, err, default_dtype, grad,
                   params_for_all_reduce, params_for_replicas_all_reduce, it, i,
                   now, t_start, t_stop, average_time, ops, steps_done>>
    /\ UNCHANGED pvars

\* lines 101-104
InitLoop ==
    /\ pc = "init_loop"
    /\ average_time' = [num |-> 0, den |-> 1]
    /\ params_for_all_reduce' = Comprehension(Parameters, grad, "all_reduce")
    /\ params_for_replicas_all_reduce' = Comprehension(Parameters, grad, "replicas")
    /\ Advance
    /\ UNCHANGED <<argv, args, parallel_env, err, default_dtype, grad, it, i,
                   now, t_start, t_stop, ops, out, steps_done>>
    /\ UNCHANGED pvars

\* line 106
For ==
    /\ pc = "for"
    /\ IF HasNext(it)
       THEN i' = it /\ it' = it + 1 /\ Goto(StepBody[1])
       ELSE i' = i /\ it' = it /\ Goto(Epilogue[1])
    /\ UNCHANGED <<argv, args, parallel_env, err, default_dtype, grad,
                   params_for_all_reduce, params_for_replicas_all_reduce,
                   now, t_start, t_stop, average_time, ops, out, steps_done>>
    /\ UNCHANGED pvars

\* lines 108-109
SyncStart ==
    /\ pc = "sync_start"
    /\ t_start' = now
    /\ ops' = <<Op("synchronize"), Op("t_start")>>
    /\ Advance
    /\ UNCHANGED <<argv, args, parallel_env, err, default_dtype, grad,
                   params_for_all_reduce, params_for_replicas_all_reduce, it, i,
                   now, t_stop, average_time, out, steps_done>>
    /\ UNCHANGED pvars

\* line 110: gradients become None or zero tensors, by the torch version
ZeroGrad ==
    /\ pc = "zero_grad"
    /\ \E z \in {"None", "zeros"} : grad' = [p \in ParamSet |-> z]
    /\ Do("zero_grad")
    /\ Advance
    /\ UNCHANGED <<argv, args, parallel_env, err, default_dtype,
                   params_for_all_reduce, params_for_replicas_all_reduce, it, i,
                   now, t_start, t_stop, average_time, out, steps_done>>
    /\ UNCHANGED pvars

\* line 112
Forward ==
    /\ pc = "forward"
    /\ Do("forward")
    /\ Advance
    /\ UNCHANGED <<argv, args, parallel_env, err, default_dtype, grad,
                   params_for_all_reduce, params_for_replicas_all_reduce, it, i,
                   now, t_start, t_stop, average_time, out, steps_done>>
    /\ UNCHANGED pvars

\* lines 113-115
Loss ==
    /\ pc = "loss"
    /\ ops' = ops \o <<Op("nll_loss")>>
                  \o (IF AuxEnabled(args) THEN <<Op("add_l_aux")>> ELSE <<>>)
    /\ Advance
    /\ UNCHANGED <<argv, args, parallel_env, err, default_dtype, grad,
                   params_for_all_reduce, params_for_replicas_all_reduce, it, i,
                   now, t_start, t_stop, average_time, out, steps_done>>
    /\ UNCHANGED pvars

\* line 116: every parameter takes part in the forward pass and gets a gradient
Backward ==
    /\ pc = "backward"
    /\ grad' = [p \in ParamSet |-> IF RequiresGrad(p) THEN "computed" ELSE grad[p]]
    /\ Do("backward")
    /\ Advance
    /\ UNCHANGED <<argv, args, parallel_env, err, default_dtype,
                   params_for_all_reduce, params_for_replicas_all_reduce, it, i,
                   now, t_start, t_stop, average_time, out, steps_done>>
    /\ UNCHANGED pvars

\* lines 117-120
AllReduceGlobal ==
    /\ pc = "all_reduce_global"
    /\ ops' = ops \o (IF GlobalReduceGuard(parallel_env)
                      THEN ReduceEvents(params_for_all_reduce, "global")
                      ELSE <<>>)
    /\ Advance
    /\ UNCHANGED <<argv, args, parallel_env, err, default_dtype, grad,
                   params_for_all_reduce, params_for_replicas_all_reduce, it, i,
                   now, t_start, t_stop, average_time, out, steps_done>>
    /\ UNCHANGED pvars

\* lines 121-124
AllReduceData ==
    /\ pc = "all_reduce_data"
    /\ ops' = ops \o (IF ReplicaReduceGuard(parallel_env)
                      THEN ReduceEvents(params_for_replicas_all_reduce, "data")
                      ELSE <<>>)
    /\ Advance
    /\ UNCHANGED <<argv, args, parallel_env, err, default_dtype, grad,
                   params_for_all_reduce, params_for_replicas_all_reduce, it, i,
                   now, t_start, t_stop, average_time, out, steps_done>>
    /\ UNCHANGED pvars

\* line 125
OptimizerStep ==
    /\ pc = "optimizer_step"
    /\ Do("optimizer_step")
    /\ Advance
    /\ UNCHANGED <<argv, args, parallel_env, err, default_dtype, grad,
                   params_for_all_reduce, params_for_replicas_all_reduce, it, i,
                   now, t_start, t_stop, average_time, out, steps_done>>
    /\ UNCHANGED pvars

\* lines 127-128: the step has taken some time when the clock is read again
SyncStop ==
    /\ pc = "sync_stop"
    /\ \E d \in Durations(i) : now' = now + d
    /\ t_stop' = now'
    /\ ops' = ops \o <<Op("synchronize"), Op("t_stop")>>
    /\ Advance
    /\ UNCHANGED <<argv, args, parallel_env, err, default_dtype, grad,
                   params_for_all_reduce, params_for_replicas_all_reduce, it, i,
                   t_start, average_time, out, steps_done>>
    /\ UNCHANGED pvars

\* line 129
PrintStep ==
    /\ pc = "print_step"
    /\ Emit(Line("STEP", i, t_stop - t_start))
    /\ Do("print_step")
    /\ Advance
    /\ UNCHANGED <<argv, args, parallel_env, err, default_dtype, grad,
                   params_for_all_reduce, params_for_replicas_all_reduce, it, i,
                   now, t_start, t_stop, average_time, steps_done>>
    /\ UNCHANGED pvars

\* lines 131-132
Accumulate ==
    /\ pc = "accumulate"
    /\ average_time' =
          IF InAverageWindow(i)
          THEN [average_time EXCEPT !.num = @ + (t_stop - t_start) * average_time.den]
          ELSE average_time
    /\ steps_done' = steps_done + 1
    /\ Advance
    /\ UNCHANGED <<argv, args, parallel_env, err, default_dtype, grad,
                   params_for_all_reduce, params_for_replicas_all_reduce, it, i,
                   now, t_start, t_stop, ops, out>>
    /\ UNCHANGED pvars

\* line 134
Average ==
    /\ pc = "average"
    /\ average_time' = [average_time EXCEPT !.den = @ * AverageDivisor]
    /\ Advance
    /\ UNCHANGED <<argv, args, parallel_env, err, default_dtype, grad,
                   params_for_all_reduce, params_for_replicas_all_reduce, it, i,
                   now, t_start, t_stop, ops, out, steps_done>>
    /\ UNCHANGED pvars

\* line 135
PrintSummary ==
    /\ pc = "print_summary"
    /\ Emit(Line("Summary", average_time.num, average_time.den))
    /\ Advance
    /\ UNCHANGED <<argv, args, parallel_env, err, default_dtype, grad,
                   params_for_all_reduce, params_for_replicas_all_reduce, it, i,
                   now, t_start, t_stop, average_time, ops, steps_done>>
    /\ UNCHANGED pvars

Next ==
    \/ ParseArgs \/ InitDataModelParallel \/ CheckDistributed \/ PrintDevice
    \/ SetDefaultDtype \/ ConstructModel \/ SetupTraining \/ PrintBenchmark
    \/ InitLoop \/ For
    \/ SyncStart \/ ZeroGrad \/ Forward \/ Loss \/ Backward
    \/ AllReduceGlobal \/ AllReduceData \/ OptimizerStep
    \/ SyncStop \/ PrintStep \/ Accumulate
    \/ Average \/ PrintSummary

Spec == Init /\ [][Next]_allvars


(***************************************************************************)
(* Observations used by the properties                                     *)
(***************************************************************************)
ModelConstructed == \E p \in ParamSet : grad[p] # "absent"
LinesOf(kind) == SelectSeq(out, LAMBDA l : l.kind = kind)
HasLine(kind) == \E k \in 1..Len(out) : out[k].kind = kind
IsPrefix(s, t) == Len(s) <= Len(t) /\ \A k \in 1..Len(s) : s[k] = t[k]
InOps(o, p, g) == \E k \in 1..Len(ops) : ops[k] = [op |-> o, p |-> p, group |-> g]
InStepBody == pc \in {"sync_start", "zero_grad", "forward", "loss", "backward",
                      "all_reduce_global", "all_reduce_data", "optimizer_step",
                      "sync_stop", "print_step", "accumulate"}
NoTraining == steps_done = 0 /\ ops = <<>> /\ ~InStepBody
                /\ ~HasLine("STEP") /\ ~HasLine("Summary")

\* Sum of the step times printed for the steps lo..hi
RECURSIVE SumStepTimes(_, _, _)
SumStepTimes(lines, lo, hi) ==
    IF lines = <<>> THEN 0
    ELSE (IF Head(lines).kind = "STEP" /\ Head(lines).a \in lo..hi
          THEN Head(lines).b ELSE 0) + SumStepTimes(Tail(lines), lo, hi)

StepTimeOf(k) == SumStepTimes(out, k, k)

(***************************************************************************)
(* C1: a process that is not launched in distributed mode ends with a      *)
(* RuntimeError whatever its arguments are (an unrecognized --dtype        *)
(* included), before the model is constructed, without any training step   *)
(* and without a STEP or Summary line.                                     *)
(***************************************************************************)
C1_NonDistributedRaises ==
    (parallel_env # NoEnv /\ ~parallel_env.is_distributed) =>
        /\ pc \in {"check_distributed", "error"}
        /\ pc = "check_distributed" => (err = "none" /\ ENABLED Next)
        /\ pc = "error" => (err = "RuntimeError" /\ ~ENABLED Next)
        /\ ~ModelConstructed
        /\ NoTraining

C1_Witness ==
    /\ pc = "error" /\ err = "RuntimeError"
    /\ ~parallel_env.is_distributed
    /\ args.dtype = "float64"

(***************************************************************************)
(* C2: under a distributed launch a --dtype outside {float32, float16,     *)
(* bfloat16} ends the script with an error before the model is constructed *)
(* and with no training step and no Summary line; each of the three values *)
(* passes the check and execution continues to model construction.         *)
(***************************************************************************)
C2_DtypeCheck ==
    (parallel_env # NoEnv /\ parallel_env.is_distributed) =>
        IF args.dtype \in {"float32", "float16", "bfloat16"}
        THEN /\ err = "none" /\ pc # "error"
             /\ pc = "set_default_dtype" => ENABLED Next
             /\ pc \notin {"init_data_model_parallel", "check_distributed",
                           "print_device", "set_default_dtype"}
                   => (default_dtype = args.dtype
                       /\ (pc = "construct_model" \/ ModelConstructed))
        ELSE /\ pc \in {"check_distributed", "print_device",
                        "set_default_dtype", "error"}
             /\ pc = "error" => (err = "Exception" /\ ~ENABLED Next)
             /\ pc # "error" => (err = "none" /\ ENABLED Next)
             /\ ~ModelConstructed
             /\ NoTraining

C2_Witness ==
    /\ pc = "error" /\ err = "Exception"
    /\ parallel_env.is_distributed
    /\ args.dtype = "float64"

(***************************************************************************)
(* C3: a valid run executes exactly 100 loop bodies, with i = 0, 1, .., 99 *)
(* in increasing order, prints one STEP line per step and, after the line  *)
(* of step 99, one Summary line, and then terminates.                      *)
(***************************************************************************)
C3_LoopRunsNumSteps ==
    LET steps == LinesOf("STEP") IN
    /\ \A k \in 1..Len(steps) : steps[k].a = k - 1
    /\ Len(steps) <= 100 /\ steps_done <= 100
    /\ InStepBody => (i = steps_done /\ i \in 0..99)
    /\ Len(steps) \in {steps_done, steps_done + 1}
    /\ HasLine("Summary") => (Len(steps) = 100 /\ out[Len(out)].kind = "Summary")
    /\ Len(LinesOf("Summary")) <= 1
    /\ pc = "done" => /\ steps_done = 100
                      /\ Len(steps) = 100
                      /\ Len(LinesOf("Summary")) = 1
                      /\ ~ENABLED Next
    /\ pc \notin {"done", "error"} => ENABLED Next

C3_Witness ==
    /\ pc = "done"
    /\ Len(LinesOf("STEP")) = 100
    /\ out[Len(out)].kind = "Summary"

Phase(l) ==
    IF l = "parse_args" THEN 1
    ELSE IF l \in {"init_data_model_parallel", "check_distributed",
                   "print_device", "set_default_dtype", "error"} THEN 2
    ELSE IF l \in {"average", "print_summary", "done"} THEN 4
    ELSE 3

C4_PhaseState ==
    /\ (InStepBody \/ steps_done > 0 \/ ops # <<>>)
          => (args # NoArgs /\ parallel_env # NoEnv /\ ModelConstructed)
    /\ ModelConstructed => (parallel_env # NoEnv /\ Phase(pc) >= 3)
    /\ parallel_env # NoEnv => (args # NoArgs /\ Phase(pc) >= 2)
    /\ args # NoArgs => Phase(pc) >= 2
    /\ Phase(pc) = 4 => (steps_done = 100 /\ ~InStepBody)
    /\ HasLine("Summary") => (steps_done = 100 /\ Phase(pc) = 4)

(***************************************************************************)
(* C4: the script goes through argument parsing, environment               *)
(* initialization, model construction with the training loop, and the      *)
(* timing summary, in this order and never backwards; no training step     *)
(* starts before the environment is initialized and the model built, and   *)
(* the summary is not printed before the last training step has finished.  *)
(***************************************************************************)
C4_LinearPhases ==
    /\ []C4_PhaseState
    /\ [][Phase(pc') >= Phase(pc) /\ Phase(pc') <= Phase(pc) + 1]_allvars

C4_Witness ==
    /\ pc = "done" /\ HasLine("Summary") /\ HasLine("Benchmark")
    /\ steps_done = 100


ExpectedStepOps ==
    <<Op("synchronize"), Op("t_start"), Op("zero_grad"), Op("forward"),
      Op("nll_loss")>>
    \o (IF args.l_aux_wt # 0 THEN <<Op("add_l_aux")>> ELSE <<>>)
    \o <<Op("backward")>>
    \o (IF parallel_env.global_size > 1
        THEN ReduceEvents(params_for_all_reduce, "global") ELSE <<>>)
    \o (IF parallel_env.group_count > 1
        THEN ReduceEvents(params_for_replicas_all_reduce, "data") ELSE <<>>)
    \o <<Op("optimizer_step"), Op("synchronize"), Op("t_stop"), Op("print_step")>>

Position(name) == CHOOSE k \in 1..Len(ops) : ops[k].op = name
Count(name) == Cardinality({k \in 1..Len(ops) : ops[k].op = name})

(***************************************************************************)
(* C6: within a step the operations occur in the order synchronize and     *)
(* start timestamp, zero_grad, forward, loss (with the auxiliary loss      *)
(* added exactly when --l_aux_wt is non-zero), backward, the all-reduces   *)
(* of the global group, those of the data group, optimizer.step,           *)
(* synchronize and stop timestamp, STEP line; optimizer.step follows the   *)
(* backward pass and every all-reduce of the step, and gradients are       *)
(* zeroed once per step, before the forward pass.                          *)
(***************************************************************************)
C6_StepOrder ==
    /\ IsPrefix(ops, ExpectedStepOps)
    /\ pc = "accumulate" => ops = ExpectedStepOps
    /\ Count("zero_grad") <= 1 /\ Count("optimizer_step") <= 1
    /\ Count("forward") = 1 => (Count("zero_grad") = 1
                                /\ Position("zero_grad") < Position("forward"))
    /\ Count("optimizer_step") = 1 =>
          /\ Count("backward") = 1
          /\ Position("backward") < Position("optimizer_step")
          /\ \A k \in 1..Len(ops) :
                ops[k].op = "all_reduce" =>
                    /\ Position("backward") < k
                    /\ k < Position("optimizer_step")
    /\ \A j, k \in 1..Len(ops) :
          (ops[j].group = "global" /\ ops[k].group = "data") => j < k

C6_Witness ==
    /\ pc = "accumulate"
    /\ InOps("all_reduce", "experts_fc1", "data")
    /\ InOps("add_l_aux", "-", "-")
    /\ parallel_env.global_size > 1

(***************************************************************************)
(* C7: the average printed in the Summary line is the sum of the measured  *)
(* step times of the steps 90..99 divided by 10; the step times of the     *)
(* steps 0..89 do not contribute.                                          *)
(***************************************************************************)
C7_AverageOfLastTen ==
    /\ pc \in {"print_summary", "done"} =>
          average_time.num * 10 = average_time.den * SumStepTimes(out, 90, 99)
    /\ HasLine("Summary") =>
          LET line == LinesOf("Summary")[1] IN
          line.a * 10 = line.b * SumStepTimes(out, 90, 99)

C7_Witness ==
    /\ pc = "done"
    /\ StepTimeOf(88) = 2 /\ StepTimeOf(89) = 2
    /\ StepTimeOf(90) = 1 /\ StepTimeOf(99) = 2
    /\ LinesOf("Summary")[1].a * 10 = LinesOf("Summary")[1].b * 11

(***************************************************************************)
(* C8: when global_size > 1, in every step the gradient of every shared    *)
(* parameter (not marked skip_allreduce, requiring grad: the gate          *)
(* parameters) has been divided by global_size and all-reduced over the    *)
(* global group when optimizer.step runs, and no parameter marked          *)
(* skip_allreduce is all-reduced over the global group.                    *)
(***************************************************************************)
C8_SharedGradsReducedGlobally ==
    (pc = "optimizer_step" /\ parallel_env.global_size > 1) =>
        \A p \in ParamSet :
            IF p \notin ExpertParams
            THEN InOps("div", p, "global") /\ InOps("all_reduce", p, "global")
            ELSE ~InOps("all_reduce", p, "global")

ListsBuilt == Phase(pc) >= 3 /\ pc \notin Labels(Prologue)

C9_ListsState ==
    LET A == params_for_all_reduce
        B == params_for_replicas_all_reduce
    IN
    /\ ListsBuilt =>
          /\ Labels(A) \cap Labels(B) = {}
          /\ Labels(A) \cup Labels(B) = ParamSet
          /\ Len(A) + Len(B) = Cardinality(ParamSet)
    /\ \A p \in ParamSet :
          /\ ~(InOps("all_reduce", p, "global") /\ InOps("all_reduce", p, "data"))
          /\ ~(InOps("div", p, "global") /\ InOps("div", p, "data"))
          /\ InOps("all_reduce", p, "data") => parallel_env.group_count > 1
          /\ Cardinality({k \in 1..Len(ops) : ops[k].op = "all_reduce"
                                              /\ ops[k].p = p}) <= 1

(***************************************************************************)
(* C9: the two parameter lists are computed once before the first step and *)
(* do not change during the loop; they are disjoint and together hold      *)
(* every model parameter exactly once, so that within a step no gradient   *)
(* is divided and all-reduced on both groups, and a gradient is            *)
(* all-reduced over the data group only when group_count > 1.              *)
(***************************************************************************)
C9_ListsPartition ==
    /\ []C9_ListsState
    /\ [][ListsBuilt =>
            /\ params_for_all_reduce' = params_for_all_reduce
            /\ params_for_replicas_all_reduce' = params_for_replicas_all_reduce
         ]_allvars

C9_Witness ==
    /\ pc = "optimizer_step"
    /\ steps_done > 0
    /\ InOps("all_reduce", "gate_wg", "data")
    /\ InOps("all_reduce", "experts_fc2", "data")

(***************************************************************************)
(* C10: the group count the run uses (the one that guards and scales the   *)
(* data-group all-reduce and that the [Benchmark] line reports) is the     *)
(* value given for --group_count.                                          *)
(***************************************************************************)
C10_GroupCountFlagUsed ==
    /\ parallel_env # NoEnv => parallel_env.group_count = args.group_count
    /\ HasLine("Benchmark") => LinesOf("Benchmark")[1].b = args.group_count
    /\ pc = "optimizer_step" =>
          (InOps("all_reduce", "experts_fc1", "data") <=> args.group_count > 1)


(***************************************************************************)
(* SpecSPMD: every process of the launch runs the script with the same     *)
(* arguments; a collective returns once every member of its group has      *)
(* joined it.                                                              *)
(***************************************************************************)
Ranks == 0..(wenv.global_size - 1)
Kinds == {"global", "data", "model"}

\* Geometry of the groups init_data_model_parallel() creates: group_count
\* model groups of consecutive ranks, data groups across them.
ModelGroupSize == wenv.global_size \div wenv.group_count
ModelRank(r) == r % ModelGroupSize
DataRank(r) == r \div ModelGroupSize

GroupOf(r, kind) ==
    IF kind = "global" THEN <<"global", 0>>
    ELSE IF kind = "data" THEN <<"data", ModelRank(r)>>
    ELSE <<"model", DataRank(r)>>

Groups == {GroupOf(r, k) : r \in Ranks, k \in Kinds}
Members(g) == {r \in Ranks : GroupOf(r, g[1]) = g}

\* parallel_env as rank r sees it
EnvOf(r) == [is_distributed |-> TRUE, global_size |-> wenv.global_size,
             group_count |-> wenv.group_count, global_rank |-> r]

\* p.grad of every parameter when lines 103-104 run
GradAtListTime == [p \in ParamSet |-> "None"]

\* The dist.all_reduce calls of a block, in order
RECURSIVE ReduceCalls(_, _)
ReduceCalls(list, kind) ==
    IF list = <<>> THEN <<>>
    ELSE <<[group |-> kind, what |-> Head(list)]>> \o ReduceCalls(Tail(list), kind)

\* The all-to-all exchanges of the MoE layer's forward pass over the model group
ForwardCalls(r) ==
    IF Cardinality(Members(GroupOf(r, "model"))) > 1
    THEN <<[group |-> "model", what |-> "all_to_all"]>>
    ELSE <<>>

\* lines 117-120
GlobalCalls(r) ==
    IF GlobalReduceGuard(EnvOf(r))
    THEN ReduceCalls(Comprehension(Parameters, GradAtListTime, "all_reduce"), "global")
    ELSE <<>>

\* lines 121-124
DataCalls(r) ==
    IF ReplicaReduceGuard(EnvOf(r))
    THEN ReduceCalls(Comprehension(Parameters, GradAtListTime, "replicas"), "data")
    ELSE <<>>

InitSPMD ==
    /\ InitProcess
    /\ argv = [dtype |-> "float32", l_aux_wt |-> 0, group_count |-> 1]
    /\ \E n \in 2..MaxWorld : \E c \in 1..MaxWorld :
          /\ n % c = 0
          /\ wenv = [global_size |-> n, group_count |-> c]
          /\ ppc = [r \in 0..(n - 1) |-> "start"]
          /\ pstep = [r \in 0..(n - 1) |-> 0]
          /\ pqueue = [r \in 0..(n - 1) |-> <<>>]
          /\ pwait = [r \in 0..(n - 1) |-> NoCall]
          /\ pissued = [r \in 0..(n - 1) |-> [k \in Kinds |-> 0]]
          /\ coll = [g \in {<<k, m>> : k \in Kinds, m \in 0..(n - 1)} |->
                        [n |-> 0, desc |-> "-", arrived |-> {}]]
    /\ mismatch = FALSE

Idle(r) == pqueue[r] = <<>> /\ pwait[r] = NoCall

\* lines 25-104: arguments, environment, model, parameter lists
P_Setup(r) ==
    /\ ppc[r] = "start"
    /\ ppc' = [ppc EXCEPT ![r] = "for"]
    /\ UNCHANGED <<wenv, pstep, pqueue, pwait, pissued, coll, mismatch>>
    /\ UNCHANGED vars

\* lines 106-112: next iteration, up to the forward pass
P_Forward(r) ==
    /\ ppc[r] = "for"
    /\ IF HasNext(pstep[r])
       THEN /\ ppc' = [ppc EXCEPT ![r] = "forward"]
            /\ pqueue' = [pqueue EXCEPT ![r] = ForwardCalls(r)]
       ELSE /\ ppc' = [ppc EXCEPT ![r] = "done"]
            /\ pqueue' = pqueue
    /\ UNCHANGED <<wenv, pstep, pwait, pissued, coll, mismatch>>
    /\ UNCHANGED vars

\* lines 113-120: loss, backward, then the all-reduces of the global group
P_AllReduceGlobal(r) ==
    /\ ppc[r] = "forward" /\ Idle(r)
    /\ ppc' = [ppc EXCEPT ![r] = "all_reduce_global"]
    /\ pqueue' = [pqueue EXCEPT ![r] = GlobalCalls(r)]
    /\ UNCHANGED <<wenv, pstep, pwait, pissued, coll, mismatch>>
    /\ UNCHANGED vars

\* lines 121-124
P_AllReduceData(r) ==
    /\ ppc[r] = "all_reduce_global" /\ Idle(r)
    /\ ppc' = [ppc EXCEPT ![r] = "all_reduce_data"]
    /\ pqueue' = [pqueue EXCEPT ![r] = DataCalls(r)]
    /\ UNCHANGED <<wenv, pstep, pwait, pissued, coll, mismatch>>
    /\ UNCHANGED vars

\* lines 125-132
P_OptimizerStep(r) ==
    /\ ppc[r] = "all_reduce_data" /\ Idle(r)
    /\ ppc' = [ppc EXCEPT ![r] = "for"]
    /\ pstep' = [pstep EXCEPT ![r] = @ + 1]
    /\ UNCHANGED <<wenv, pqueue, pwait, pissued, coll, mismatch>>
    /\ UNCHANGED vars

\* A process enters the next collective of its block
P_Join(r) ==
    /\ pwait[r] = NoCall /\ pqueue[r] # <<>>
    /\ LET call == Head(pqueue[r])
           g == GroupOf(r, call.group)
           c == coll[g]
           full == c.arrived \cup {r} = Members(g)
       IN /\ pwait' = [pwait EXCEPT ![r] = call]
          /\ pqueue' = [pqueue EXCEPT ![r] = Tail(@)]
          /\ pissued' = [pissued EXCEPT ![r][call.group] = @ + 1]
          /\ mismatch' = (mismatch \/ (c.arrived # {} /\ c.desc # call.what)
                                   \/ pissued[r][call.group] # c.n)
          /\ coll' = [coll EXCEPT ![g] =
                        IF full
                        THEN [n |-> c.n + 1, desc |-> "-", arrived |-> {}]
                        ELSE [n |-> c.n, desc |-> IF c.arrived = {} THEN call.what
                                                  ELSE c.desc,
                              arrived |-> c.arrived \cup {r}]]
    /\ UNCHANGED <<wenv, ppc, pstep>>
    /\ UNCHANGED vars

\* The collective returns once every member of the group has joined it
P_Return(r) ==
    /\ pwait[r] # NoCall
    /\ coll[GroupOf(r, pwait[r].group)].n >= pissued[r][pwait[r].group]
    /\ pwait' = [pwait EXCEPT ![r] = NoCall]
    /\ UNCHANGED <<wenv, ppc, pstep, pqueue, pissued, coll, mismatch>>
    /\ UNCHANGED vars

Proc(r) ==
    /\ r \in Ranks
    /\ \/ P_Setup(r) \/ P_Forward(r) \/ P_AllReduceGlobal(r) \/ P_AllReduceData(r)
       \/ P_OptimizerStep(r) \/ P_Join(r) \/ P_Return(r)

NextSPMD ==
    \/ \E r \in Ranks : P_Setup(r)
    \/ \E r \in Ranks : P_Forward(r)
    \/ \E r \in Ranks : P_AllReduceGlobal(r)
    \/ \E r \in Ranks : P_AllReduceData(r)
    \/ \E r \in Ranks : P_OptimizerStep(r)
    \/ \E r \in Ranks : P_Join(r)
    \/ \E r \in Ranks : P_Return(r)

\* Every process of the launch keeps running while it can take a step
SpecSPMD ==
    /\ InitSPMD
    /\ [][NextSPMD]_allvars
    /\ \A r \in 0..(MaxWorld - 1) : WF_allvars(Proc(r))

C5_Matched ==
    /\ ~mismatch
    /\ \A r \in Ranks : \A q \in Ranks : \A k \in Kinds :
          (GroupOf(r, k) = GroupOf(q, k) /\ pstep[r] = pstep[q]
             /\ ppc[r] = "for" /\ ppc[q] = "for")
          => pissued[r][k] = pissued[q][k]
    /\ (\A r \in Ranks : ppc[r] = "done") =>
          /\ \A g \in Groups : coll[g].arrived = {}
          /\ \A r \in Ranks : pstep[r] = 100 /\ pwait[r] = NoCall

(***************************************************************************)
(* C5: with N >= 2 processes running the script with the same arguments,   *)
(* the members of every communication group issue the same collectives in  *)
(* the same order on that group, every collective is joined by all members *)
(* of its group, no process stays blocked in a collective, and every       *)
(* process completes all 100 steps.                                        *)
(***************************************************************************)
C5_Lockstep ==
    /\ []C5_Matched
    /\ \A r \in 0..(MaxWorld - 1) :
          (r \in Ranks /\ pwait[r] # NoCall) ~> (r \in Ranks /\ pwait[r] = NoCall)
    /\ <>(\A r \in Ranks : ppc[r] = "done" /\ pstep[r] = 100)

C5_Witness ==
    /\ \A r \in Ranks : ppc[r] = "done" /\ pstep[r] = 100
    /\ wenv.group_count > 1
    /\ \A r \in Ranks : pissued[r]["data"] = 300

====
